---- MODULE Spec2Model ----
(***************************************************************************)
(* Request authentication and payment enforcement pipeline of the ATXP     *)
(* Cloudflare MCP server example.                                          *)
(*                                                                         *)
(* The worker's fetch handler (src/src/index.ts), the middleware           *)
(* ATXPWorkerMiddleware (atxpWorkerMiddleware.ts), the process-wide        *)
(* request context (src/src/atxpWorkerContext.ts) and requirePayment       *)
(* (src/src/requirePaymentWorker.ts) are modelled as one state machine.    *)
(* Every request is a JavaScript async call chain: it runs without         *)
(* interruption up to an await on I/O (body read, token introspection,     *)
(* dynamic import, charge, payment-request creation) and its continuation  *)
(* is a separate step, so the requests interleave at exactly those awaits. *)
(***************************************************************************)
EXTENDS Integers, Sequences, FiniteSets, TLC

\* ------------------------------------------------------------------------
\* Bounds of the model
\* ------------------------------------------------------------------------

\* The requests the worker handles; both may be in flight at once.
Req == {"A", "B"}

\* Longest batch (JSON array) a request body carries.
MaxBatch == 2

\* ------------------------------------------------------------------------
\* Values
\* ------------------------------------------------------------------------

\* JavaScript null / undefined where a string is expected (an absent
\* header, an omitted body member, a missing subject).
None == "<none>"

\* JavaScript null / undefined where an object is expected.
Null == [null |-> TRUE]

\* Token subjects the authorization server knows.
Subjects == {"user-42", "user-7"}

Methods == {"GET", "POST"}

WellKnownPath == "/.well-known/oauth-protected-resource"

\* Request paths: the mount path, its /message endpoint, the streamable
\* HTTP endpoint, the metadata endpoint and a path nothing serves.
Paths == {"/", "/message", "/mcp", WellKnownPath, "/nope"}

\* Authorization header values: absent, present but empty, a Basic
\* credential, the scheme without the separating space, a Bearer token.
AuthHeaders == {None, "", "Basic abc", "Bearer", "Bearer tok"}

\* Origin of the worker; new URL(requestUrl.origin) has pathname "/".
Origin == [protocol |-> "https:", host |-> "host", pathname |-> "/"]

\* Price of one hello_world call in hundredths of a USDC.
PriceCents == 1

\* config.mountPath as buildServerConfig leaves it when initATXP passes none.
ConfigMountPath == "/"

\* The static configuration built by buildWorkerATXPConfig in initATXP.
Config ==
  [ server      |-> "https://auth.atxp.ai",
    currency    |-> "USDC",
    network     |-> "base",
    destination |-> "0xDEST",
    payeeName   |-> "ATXP MCP Server Demo",
    mountPath   |-> ConfigMountPath ]

\* ------------------------------------------------------------------------
\* Request bodies, as what request.clone().text() and JSON.parse make of
\* them: an empty text, a text JSON.parse rejects, or the parsed value.
\* A parsed value is null, a string, a number, an object or an array of
\* such values; an object lists the members the classifier looks at
\* (None: the member is missing; the id is written as its JSON text).
\* methodType is the JSON type of the member method, whose value is then
\* written as its JSON text when it is a number.
\* ------------------------------------------------------------------------

JObj(jsonrpc, method, id) ==
  [ t |-> "object", jsonrpc |-> jsonrpc, method |-> method,
    methodType |-> IF method = None THEN "undefined" ELSE "string",
    id |-> id ]

\* An object whose member method is the number n.
JObjNumMethod(jsonrpc, n, id) ==
  [ t |-> "object", jsonrpc |-> jsonrpc, method |-> n,
    methodType |-> "number", id |-> id ]

JCall       == JObj("2.0", "tools/call", "1")
JCallIdZero == JObj("2.0", "tools/call", "0")
JCallIdStr  == JObj("2.0", "tools/call", "")
JNotify     == JObj("2.0", "notifications/initialized", None)
JNoMethod   == JObj("2.0", "", "1")
JOldRpc     == JObj("1.0", "tools/call", "1")
JEmptyObj   == JObj(None, None, None)
JCallIdNull == JObj("2.0", "tools/call", "null")
JNumMethod  == JObjNumMethod("2.0", "7", "1")
JZeroMethod == JObjNumMethod("2.0", "0", "1")
JString     == [t |-> "string"]
JNull       == [t |-> "null"]

JScalars == {JCall, JCallIdZero, JCallIdStr, JNotify, JNoMethod, JOldRpc,
             JEmptyObj, JCallIdNull, JNumMethod, JZeroMethod, JString, JNull}

JArr(elems) == [t |-> "array", elems |-> elems]

\* Elements of the batches the model sends.
JBatchElems == {JCall, JNotify, JNumMethod, JString}

JBatches ==
  UNION {[1..n -> JBatchElems] : n \in 0..MaxBatch}

Bodies ==
  {[kind |-> "empty"], [kind |-> "malformed"]}
    \cup {[kind |-> "json", value |-> v] : v \in JScalars}
    \cup {[kind |-> "json", value |-> JArr(b)] : b \in JBatches}

\* JavaScript truthiness of a string-or-undefined value.
Truthy(v) == v # None /\ v # ""

\* ------------------------------------------------------------------------
\* RequestClassifier: ATXPWorkerMiddleware.parseMcpRequest
\* ------------------------------------------------------------------------

\* String.prototype.replace(/\/$/, ''): drop one trailing slash.
StripTrailingSlash(p) ==
  IF Len(p) > 0 /\ SubSeq(p, Len(p), Len(p)) = "/"
    THEN SubSeq(p, 1, Len(p) - 1)
    ELSE p

\* parseMcpRequest without its test of the request method.
PathIsMounted_AnyMethod(method, path, mountPath) ==
  LET p == StripTrailingSlash(path)
      m == StripTrailingSlash(mountPath)
  IN  p = m \/ p = m \o "/message"

\* The part of parseMcpRequest before the body is read: TRUE iff the
\* method is POST and the path is the mount path or its /message endpoint.
PathIsMounted(method, path, mountPath) ==
  LET p == StripTrailingSlash(path)
      m == StripTrailingSlash(mountPath)
  IN  /\ method = "POST"
      /\ (p = m \/ p = m \o "/message")

\* JavaScript truthiness of msg.method: a non-empty string or a number
\* other than 0.
MethodTruthy(msg) ==
  IF msg.methodType = "number" THEN msg.method # "0" ELSE Truthy(msg.method)

\* msg && typeof msg === 'object' && msg.jsonrpc === '2.0' && msg.method
\* && msg.id !== undefined
IsRpcCall(msg) ==
  /\ msg.t = "object"
  /\ msg.jsonrpc = "2.0"
  /\ MethodTruthy(msg)
  /\ msg.id # None

\* parseMcpRequest that takes every parsed object for a call, without
\* looking at its members.
ParseBody_AnyObject(body) ==
  IF body.kind # "json" THEN <<>>
  ELSE IF body.value.t = "array"
    THEN SelectSeq(body.value.elems, IsRpcCall)
  ELSE IF body.value.t = "object"
    THEN <<body.value>>
  ELSE <<>>

\* The part of parseMcpRequest after the body is read: the list of RpcCalls.
ParseBody(body) ==
  IF body.kind # "json" THEN <<>>
  ELSE IF body.value.t = "array"
    THEN SelectSeq(body.value.elems, IsRpcCall)
  ELSE IF body.value.t = "object" /\ IsRpcCall(body.value)
    THEN <<body.value>>
  ELSE <<>>

\* ------------------------------------------------------------------------
\* TokenGate: checkToken and sendOAuthChallenge
\* ------------------------------------------------------------------------

ProtectedResourceMetadataUrl(resource) ==
  resource.protocol \o "//" \o resource.host
    \o "/.well-known/oauth-protected-resource" \o resource.pathname

Failure(resource, problem, token) ==
  [ passes |-> FALSE, problem |-> problem, data |-> Null, token |-> token,
    resourceMetadataUrl |-> ProtectedResourceMetadataUrl(resource) ]

StartsWithBearer(h) == Len(h) >= 7 /\ SubSeq(h, 1, 7) = "Bearer "

\* checkToken that passes the whole header value to the introspector.
TokenOf_WholeHeader(h) == h

\* authHeader.substring(7)
TokenOf(h) == SubSeq(h, 8, Len(h))

\* checkToken without the test for the Bearer prefix: every non-empty
\* header is sent to the introspector.
CheckHeader_NoPrefixTest(resource, authHeader) ==
  IF ~Truthy(authHeader) THEN Failure(resource, "NO_TOKEN", None)
  ELSE Null

\* checkToken up to the call of the introspector: the verdict when it is
\* decided by the header alone, Null when the introspector must be asked.
CheckHeader(resource, authHeader) ==
  IF ~Truthy(authHeader) THEN Failure(resource, "NO_TOKEN", None)
  ELSE IF ~StartsWithBearer(authHeader)
    THEN Failure(resource, "NON_BEARER_AUTH_HEADER", None)
  ELSE Null

\* What the introspector can answer; Throws is a rejected promise.
Throws == [throws |-> TRUE]

IntrospectResults ==
  {[active |-> FALSE, sub |-> None]}
    \cup {[active |-> TRUE, sub |-> s] : s \in Subjects \cup {None}}

IntrospectOutcomes == {Throws} \cup IntrospectResults

\* An exception that leaves checkToken instead of a verdict.
Raised == [raised |-> TRUE]

\* checkToken that does not look at the active flag.
CheckIntrospection_IgnoresActive(resource, token, outcome) ==
  IF outcome = Throws THEN Failure(resource, "INTROSPECT_ERROR", token)
  ELSE [passes |-> TRUE, data |-> outcome, token |-> token]

\* checkToken without its try/catch around the introspection.
CheckIntrospection_NoCatch(resource, token, outcome) ==
  IF outcome = Throws THEN Raised
  ELSE IF ~outcome.active THEN Failure(resource, "INVALID_TOKEN", token)
  ELSE [passes |-> TRUE, data |-> outcome, token |-> token]

\* checkToken after the introspector answered.
CheckIntrospection(resource, token, outcome) ==
  IF outcome = Throws THEN Failure(resource, "INTROSPECT_ERROR", token)
  ELSE IF ~outcome.active THEN Failure(resource, "INVALID_TOKEN", token)
  ELSE [passes |-> TRUE, data |-> outcome, token |-> token]

\* A JSON response whose body has the member error only.
JsonResponse_NoDescription(status, error, description, wwwAuthenticate) ==
  [ status |-> status, contentType |-> "application/json",
    error |-> error, error_description |-> None,
    wwwAuthenticate |-> wwwAuthenticate ]

JsonResponse(status, error, description, wwwAuthenticate) ==
  [ status |-> status, contentType |-> "application/json",
    error |-> error, error_description |-> description,
    wwwAuthenticate |-> wwwAuthenticate ]

\* sendOAuthChallenge that answers a lack of funds with 402 Payment
\* Required instead of 403.
SendOAuthChallenge_Funds402(tokenCheck) ==
  IF tokenCheck.passes THEN Null
  ELSE LET www == "Bearer resource_metadata=\""
                    \o tokenCheck.resourceMetadataUrl \o "\""
           p   == tokenCheck.problem
       IN  CASE p = "NO_TOKEN" -> JsonResponse(401, None, None, www)
             [] p = "NON_BEARER_AUTH_HEADER" ->
                  JsonResponse(400, "invalid_request",
                    "Authorization header did not include a Bearer token", www)
             [] p = "INVALID_TOKEN" ->
                  JsonResponse(401, "invalid_token", "Token is not active", www)
             [] p = "INVALID_AUDIENCE" ->
                  JsonResponse(401, "invalid_token",
                    "Token does not match the expected audience", www)
             [] p = "NON_SUFFICIENT_FUNDS" ->
                  JsonResponse(402, "payment_required",
                    "Non sufficient funds", www)
             [] p = "INTROSPECT_ERROR" ->
                  JsonResponse(502, "server_error",
                    "An internal server error occurred", www)
             [] OTHER -> JsonResponse(401, None, None, www)

\* sendOAuthChallenge that sets the WWW-Authenticate header inside the
\* cases it knows, so that the default case answers without it.
SendOAuthChallenge_DefaultNoHeader(tokenCheck) ==
  IF tokenCheck.passes THEN Null
  ELSE LET www == "Bearer resource_metadata=\""
                    \o tokenCheck.resourceMetadataUrl \o "\""
           p   == tokenCheck.problem
       IN  CASE p = "NO_TOKEN" -> JsonResponse(401, None, None, www)
             [] p = "NON_BEARER_AUTH_HEADER" ->
                  JsonResponse(400, "invalid_request",
                    "Authorization header did not include a Bearer token", www)
             [] p = "INVALID_TOKEN" ->
                  JsonResponse(401, "invalid_token", "Token is not active", www)
             [] p = "INVALID_AUDIENCE" ->
                  JsonResponse(401, "invalid_token",
                    "Token does not match the expected audience", www)
             [] p = "NON_SUFFICIENT_FUNDS" ->
                  JsonResponse(403, "insufficient_scope",
                    "Non sufficient funds", www)
             [] p = "INTROSPECT_ERROR" ->
                  JsonResponse(502, "server_error",
                    "An internal server error occurred", www)
             [] OTHER -> JsonResponse(401, None, None, None)

\* sendOAuthChallenge whose case 'NO_TOKEN' lacks its break and falls
\* through to the case 'NON_BEARER_AUTH_HEADER'.
SendOAuthChallenge_NoBreak(tokenCheck) ==
  IF tokenCheck.passes THEN Null
  ELSE LET www == "Bearer resource_metadata=\""
                    \o tokenCheck.resourceMetadataUrl \o "\""
           p   == tokenCheck.problem
       IN  CASE p \in {"NO_TOKEN", "NON_BEARER_AUTH_HEADER"} ->
                  JsonResponse(400, "invalid_request",
                    "Authorization header did not include a Bearer token", www)
             [] p = "INVALID_TOKEN" ->
                  JsonResponse(401, "invalid_token", "Token is not active", www)
             [] p = "INTROSPECT_ERROR" ->
                  JsonResponse(502, "server_error",
                    "An internal server error occurred", www)
             [] OTHER -> JsonResponse(401, None, None, www)

\* sendOAuthChallenge: Null when the verdict passes.
SendOAuthChallenge(tokenCheck) ==
  IF tokenCheck.passes THEN Null
  ELSE LET www == "Bearer resource_metadata=\""
                    \o tokenCheck.resourceMetadataUrl \o "\""
           p   == tokenCheck.problem
       IN  CASE p = "NO_TOKEN" -> JsonResponse(401, None, None, www)
             [] p = "NON_BEARER_AUTH_HEADER" ->
                  JsonResponse(400, "invalid_request",
                    "Authorization header did not include a Bearer token", www)
             [] p = "INVALID_TOKEN" ->
                  JsonResponse(401, "invalid_token", "Token is not active", www)
             [] p = "INVALID_AUDIENCE" ->
                  JsonResponse(401, "invalid_token",
                    "Token does not match the expected audience", www)
             [] p = "NON_SUFFICIENT_FUNDS" ->
                  JsonResponse(403, "insufficient_scope",
                    "Non sufficient funds", www)
             [] p = "INTROSPECT_ERROR" ->
                  JsonResponse(502, "server_error",
                    "An internal server error occurred", www)
             [] OTHER -> JsonResponse(401, None, None, www)

\* ------------------------------------------------------------------------
\* RequestContext: ATXPWorkerContext and the process-wide currentContext
\* ------------------------------------------------------------------------

\* new ATXPWorkerContext(config, resource, tokenCheck). The field owner is
\* the identity of the object: the request whose handleRequest built it.
NewContext(r, tokenCheck) ==
  [ owner |-> r, config |-> Config,
    tokenData |-> tokenCheck.data ]

\* ATXPWorkerContext.atxpAccountId: this.tokenData?.sub ?? null
CtxAccountId(ctx) ==
  IF ctx.tokenData = Null THEN None ELSE ctx.tokenData.sub

\* The module-level helpers getATXPConfig() and atxpAccountId().
GetATXPConfig(ctx) == IF ctx = Null THEN Null ELSE ctx.config
AtxpAccountId(ctx) == IF ctx = Null THEN None ELSE CtxAccountId(ctx)

\* The props the fetch handler hands to the agent: {} when there is no
\* context, else user and claims taken from the context.
AuthContextOf(ctx) ==
  IF ctx = Null
    THEN [user |-> None, sub |-> None]
    ELSE [ user |-> IF Truthy(CtxAccountId(ctx)) THEN CtxAccountId(ctx) ELSE None,
           sub  |-> CtxAccountId(ctx) ]

\* ------------------------------------------------------------------------
\* Routing of the fetch handler after the middleware
\* ------------------------------------------------------------------------

\* fetch that serves the metadata document to GET requests only.
IsMetadataRequest_GetOnly(method, path) ==
  method = "GET" /\ path = WellKnownPath

\* url.pathname === "/.well-known/oauth-protected-resource", whatever
\* the method.
IsMetadataRequest(method, path) == path = WellKnownPath

\* A router that matches the MCP mount as a prefix of the path.
RoutesToAgent_PrefixMatch(path) ==
  \/ path \in {"/sse", "/sse/message", "/"}
  \/ (Len(path) >= 4 /\ SubSeq(path, 1, 4) = "/mcp")

RoutesToAgent(path) ==
  path \in {"/sse", "/sse/message", "/mcp", "/"}

\* The 500 response of the catch block of handleRequest.
MiddlewareErrorResponse ==
  [ status |-> 500, contentType |-> "application/json",
    error |-> "server_error",
    error_description |->
      "An internal server error occurred in ATXP middleware",
    wwwAuthenticate |-> None ]

NotFoundResponse ==
  [ status |-> 404, contentType |-> "text/plain",
    error |-> None, error_description |-> None, wwwAuthenticate |-> None ]

MetadataResponse ==
  [ status |-> 200, contentType |-> "application/json",
    error |-> None, error_description |-> None, wwwAuthenticate |-> None ]

\* ------------------------------------------------------------------------
\* Environment of the worker and errors of the payment step
\* ------------------------------------------------------------------------

\* env as the runtime hands it to fetch: complete, or without the
\* FUNDING_DESTINATION binding.
Envs ==
  { [FUNDING_DESTINATION |-> "0xDEST", FUNDING_NETWORK |-> "base"],
    [FUNDING_DESTINATION |-> None,     FUNDING_NETWORK |-> "base"] }

\* MyMCP.initATXP throws unless both bindings are set.
InitATXPThrows(e) ==
  ~Truthy(e.FUNDING_DESTINATION) \/ ~Truthy(e.FUNDING_NETWORK)

\* ATXPMcpApi.getConfig() inside requirePayment's try/catch: the config,
\* or Null when getConfig throws because init was never called.
ApiConfigOrNull(api) == api.config

\* paymentRequiredError(server, id, amount) of @atxp/common. tagged tells
\* whether the text 'payment_required' occurs in the error's message, which
\* is what the catch block of requirePayment looks at.
PaymentRequiredError(server, id, amount, tagged) ==
  [ kind |-> "payment_required", authorizationServer |-> server,
    paymentRequestId |-> id, chargeAmount |-> amount, tagged |-> tagged ]

\* An error thrown by the payment server or the pending-payment hook.
TransportError(tagged) ==
  [ kind |-> "transport", authorizationServer |-> None,
    paymentRequestId |-> None, chargeAmount |-> 0, tagged |-> tagged ]

\* The catch block of requirePayment: an error whose message includes
\* 'payment_required' is re-thrown as it is, every other error is wrapped
\* into Error('Payment processing failed: ...').
CatchPaymentError(err) ==
  IF err.tagged THEN err
  ELSE [ kind |-> "processing_failed", authorizationServer |-> None,
         paymentRequestId |-> None, chargeAmount |-> 0, tagged |-> FALSE ]

\* Errors requirePayment throws before its try block.
ErrNoConfig ==
  [ kind |-> "no_config", authorizationServer |-> None,
    paymentRequestId |-> None, chargeAmount |-> 0, tagged |-> FALSE ]

ErrNoUser ==
  [ kind |-> "no_user", authorizationServer |-> None,
    paymentRequestId |-> None, chargeAmount |-> 0, tagged |-> FALSE ]

NoError ==
  [ kind |-> "none", authorizationServer |-> None,
    paymentRequestId |-> None, chargeAmount |-> 0, tagged |-> FALSE ]

\* requirePayment that converts the price to hundredths before charging.
ChargeOf_AmountScaled(price, config, user) ==
  [ amount |-> price * 100, currency |-> config.currency,
    network |-> config.network, destination |-> config.destination,
    source |-> user, payeeName |-> config.payeeName ]

\* The charge descriptor requirePayment builds.
ChargeOf(price, config, user) ==
  [ amount |-> price, currency |-> config.currency,
    network |-> config.network, destination |-> config.destination,
    source |-> user, payeeName |-> config.payeeName ]

NoCharge == [amount |-> 0, source |-> None]

\* requirePayment that prefers the identity of the current context to
\* the one its caller passed.
ResolveUser_ContextFirst(authenticatedUser, ctx) ==
  IF Truthy(AtxpAccountId(ctx)) THEN AtxpAccountId(ctx)
  ELSE IF Truthy(authenticatedUser) THEN authenticatedUser
  ELSE None

\* Identity resolution of requirePayment: props first, then the context.
ResolveUser(authenticatedUser, ctx) ==
  IF Truthy(authenticatedUser) THEN authenticatedUser
  ELSE IF Truthy(AtxpAccountId(ctx)) THEN AtxpAccountId(ctx)
  ELSE None

\* Config resolution of requirePayment that asks ATXPMcpApi first.
ResolveConfig_ApiFirst(ctx, api) ==
  IF ApiConfigOrNull(api) # Null THEN ApiConfigOrNull(api)
  ELSE GetATXPConfig(ctx)

\* Config resolution of requirePayment: the context's config, then the API's.
ResolveConfig(ctx, api) ==
  IF GetATXPConfig(ctx) # Null THEN GetATXPConfig(ctx)
  ELSE ApiConfigOrNull(api)

\* ------------------------------------------------------------------------
\* ATXPMcpApi (src/src/atxpMcpApi.ts): the static middleware and config,
\* and the worker wrappers that initialise them
\* ------------------------------------------------------------------------

\* The static fields before init and after reset.
Uninitialized == [middleware |-> Null, config |-> Null]

\* The ATXPMcpConfig values callers pass: with and without the funding
\* destination, the funding network and the payee name.
McpOptions ==
  [ fundingDestination : {None, "0xDEST", "0xOTHER"},
    fundingNetwork     : {None, "base"},
    payeeName          : {None, "My MCP Server"} ]

\* buildWorkerATXPConfig(atxpArgs) as init calls it.
BuildWorkerATXPConfig(options) ==
  [ server      |-> "https://auth.atxp.ai",
    currency    |-> "USDC",
    network     |-> options.fundingNetwork,
    destination |-> options.fundingDestination,
    payeeName   |-> IF Truthy(options.payeeName) THEN options.payeeName
                    ELSE "MCP Server",
    mountPath   |-> ConfigMountPath ]

ErrDestinationRequired ==
  "fundingDestination is required for ATXP initialization"
ErrNetworkRequired == "fundingNetwork is required for ATXP initialization"
ErrBuildFailed == "buildServerConfig threw"
ErrNotInitialized == "ATXP not initialized - call ATXPMcpApi.init() first"
ErrEnvDestination == "FUNDING_DESTINATION environment variable not set"
ErrEnvNetwork == "FUNDING_NETWORK environment variable not set"

\* The outcome of a call on ATXPMcpApi: the static fields after it, the
\* message of the error it threw (None when it returned), the value it
\* returned and the number of times it ran ATXPMcpApi.init.
Outcome(api, error, value, inits) ==
  [api |-> api, error |-> error, value |-> value, inits |-> inits]

\* ATXPMcpApi.isInitialized()
IsInitialized(api) == api.middleware # Null /\ api.config # Null

\* ATXPMcpApi.init(options); builds tells whether buildServerConfig,
\* which is not part of this repository, returns rather than throws.
ApiInit(api, options, builds) ==
  IF ~Truthy(options.fundingDestination)
    THEN Outcome(api, ErrDestinationRequired, Null, 1)
  ELSE IF ~Truthy(options.fundingNetwork)
    THEN Outcome(api, ErrNetworkRequired, Null, 1)
  ELSE IF ~builds
    THEN Outcome(api, ErrBuildFailed, Null, 1)
  ELSE LET config == BuildWorkerATXPConfig(options)
       IN  Outcome([middleware |-> [config |-> config], config |-> config],
                   None, Null, 1)

\* ATXPMcpApi.getMiddleware() and ATXPMcpApi.getConfig()
ApiGetMiddleware(api) ==
  IF api.middleware = Null THEN Outcome(api, ErrNotInitialized, Null, 0)
  ELSE Outcome(api, None, api.middleware, 0)

ApiGetConfig(api) ==
  IF api.config = Null THEN Outcome(api, ErrNotInitialized, Null, 0)
  ELSE Outcome(api, None, api.config, 0)

\* A reset that forgets the middleware but keeps the config.
ApiReset_KeepsConfig(api) ==
  Outcome([api EXCEPT !.middleware = Null], None, Null, 0)

\* ATXPMcpApi.reset()
ApiReset(api) == Outcome(Uninitialized, None, Null, 0)

\* initATXPFromEnv(env, payeeName)
InitATXPFromEnv(api, e, payeeName, builds) ==
  IF ~Truthy(e.FUNDING_DESTINATION)
    THEN Outcome(api, ErrEnvDestination, Null, 0)
  ELSE IF ~Truthy(e.FUNDING_NETWORK)
    THEN Outcome(api, ErrEnvNetwork, Null, 0)
  ELSE ApiInit(api,
               [ fundingDestination |-> e.FUNDING_DESTINATION,
                 fundingNetwork     |-> e.FUNDING_NETWORK,
                 payeeName          |-> IF Truthy(payeeName) THEN payeeName
                                        ELSE "MCP Server" ],
               builds)

\* A wrapper that initialises ATXPMcpApi whenever a handler is created.
AtxpCloudflareWorker_AlwaysInits(api, options, builds) ==
  ApiInit(api, options, builds)

\* atxpCloudflareWorker(options) up to the handler it returns: init is
\* called with options.config when ATXPMcpApi is not initialised.
AtxpCloudflareWorker(api, options, builds) ==
  IF ~IsInitialized(api) THEN ApiInit(api, options, builds)
  ELSE Outcome(api, None, Null, 0)

\* fetch of the handler atxpCloudflareWorkerFromEnv returns, up to its
\* call of handler.fetch: initATXPFromEnv when ATXPMcpApi is not
\* initialised, then a new atxpCloudflareWorker made from env.
AtxpCloudflareWorkerFromEnv(api, e, serviceName, builds) ==
  LET first == IF ~IsInitialized(api)
                 THEN InitATXPFromEnv(api, e, serviceName, builds)
                 ELSE Outcome(api, None, Null, 0)
      made  == AtxpCloudflareWorker(
                 first.api,
                 [ fundingDestination |-> e.FUNDING_DESTINATION,
                   fundingNetwork     |-> e.FUNDING_NETWORK,
                   payeeName          |-> IF Truthy(serviceName)
                                            THEN serviceName
                                          ELSE "MCP Server" ],
                 builds)
  IN  IF first.error # None THEN first
      ELSE [made EXCEPT !.inits = @ + first.inits]

\* No call was made on ATXPMcpApi yet. op names the call, options what
\* it was passed, error the message it threw, value what it returned,
\* flag what isInitialized answered, inits how often it ran init and
\* lastChange the last call that changed the static fields.
NoApiCall ==
  [ op |-> "none", options |-> Null, error |-> None, value |-> Null,
    flag |-> FALSE, inits |-> 0, lastChange |-> "none" ]

\* ------------------------------------------------------------------------
\* State
\* ------------------------------------------------------------------------

VARIABLES
  env,             \* the bindings the runtime passes to every fetch call
  atxpMiddleware,  \* MyMCP.atxpMiddleware: Null until initATXP succeeded
  atxpMcpApi,      \* ATXPMcpApi's static middleware and config
  apiCall,         \* the last call made on ATXPMcpApi and its outcome
  currentContext,  \* the module-level currentContext of atxpWorkerContext
  pc,              \* where each request's call chain is suspended
  req,             \* method and path of each request
  calls,           \* length of the list parseMcpRequest returned, -1 before
  authHeader,      \* the Authorization header checkToken read
  tokenCheck,      \* the verdict checkToken returned
  introspections,  \* calls of oAuthClient.introspectToken made for the request
  introspectResult,\* what the introspector answered (Null before, Throws)
  ctxSeen,         \* owner of the context fetch got from getATXPWorkerContext
  props,           \* the authContext handed to the agent as ctx.props
  resp,            \* the response the pipeline itself produced
  tool             \* the hello_world invocation the request triggered

vars == << env, atxpMiddleware, atxpMcpApi, apiCall, currentContext, pc, req, calls,
           authHeader, tokenCheck, introspections, introspectResult, ctxSeen,
           props, resp, tool >>

Unread == "<unread>"

EmptyProps == [user |-> None, sub |-> None]

\* No hello_world invocation yet. price is paymentConfig.price, ctxUser
\* what atxpAccountId() returned to requirePayment, charge the descriptor
\* passed to charge and createArg the one passed to createPaymentRequest;
\* chargeCalls and createCalls count the calls of the two. hook is what
\* getExistingPaymentId answered when it was consulted, createResult what
\* createPaymentRequest answered, and log lists the calls in their order.
NoTool ==
  [ pc |-> "none", price |-> 0, ctxOwner |-> Unread, ctxUser |-> Unread,
    charge |-> NoCharge, chargeCalls |-> 0, chargeResult |-> "none",
    hook |-> "none", createArg |-> NoCharge, createCalls |-> 0,
    createResult |-> "none", log |-> <<>>, error |-> NoError ]

\* A request has returned its response: the pipeline answered it itself
\* ("done") or the agent it was forwarded to has answered ("replied").
Completed(r) == pc[r] \in {"done", "replied"}

\* The request was handed to the agent's fetch.
Forwarded(r) == pc[r] \in {"agent", "replied"}

Init ==
  /\ env \in Envs
  /\ atxpMiddleware = Null
  /\ atxpMcpApi = Uninitialized
  /\ apiCall = NoApiCall
  /\ currentContext = Null
  /\ pc = [r \in Req |-> "idle"]
  /\ req = [r \in Req |-> Null]
  /\ calls = [r \in Req |-> -1]
  /\ authHeader = [r \in Req |-> Unread]
  /\ tokenCheck = [r \in Req |-> Null]
  /\ introspections = [r \in Req |-> 0]
  /\ introspectResult = [r \in Req |-> Null]
  /\ ctxSeen = [r \in Req |-> Unread]
  /\ props = [r \in Req |-> EmptyProps]
  /\ resp = [r \in Req |-> Null]
  /\ tool = [r \in Req |-> NoTool]

\* ------------------------------------------------------------------------
\* fetch (src/src/index.ts) and handleRequest (atxpWorkerMiddleware.ts)
\* ------------------------------------------------------------------------

\* The routing at the end of fetch with the authContext it has built.
\* The finally block of fetch clears nothing.
RouteWith(r, path, authContext) ==
  /\ props' = [props EXCEPT ![r] = authContext]
  /\ IF RoutesToAgent(path)
       THEN /\ pc' = [pc EXCEPT ![r] = "agent"]
            /\ resp' = resp
       ELSE /\ pc' = [pc EXCEPT ![r] = "done"]
            /\ resp' = [resp EXCEPT ![r] = NotFoundResponse]

\* handleRequest returned null: fetch asks getATXPWorkerContext() for the
\* context that is current now (ctx), builds the authContext and routes.
ContinueAfterMiddleware(r, path, ctx) ==
  /\ ctxSeen' = [ctxSeen EXCEPT ![r] = IF ctx = Null THEN None ELSE ctx.owner]
  /\ RouteWith(r, path, AuthContextOf(ctx))

\* handleRequest returned a response: fetch returns it.
Answer(r, response) ==
  /\ pc' = [pc EXCEPT ![r] = "done"]
  /\ resp' = [resp EXCEPT ![r] = response]
  /\ UNCHANGED <<props, ctxSeen>>

\* fetch for a request with the given method and path, the middleware
\* being configured with mountPath: it runs up to the first await on I/O,
\* which is the body read inside parseMcpRequest.
FetchWith(r, method, path, mountPath) ==
  /\ IF IsMetadataRequest(method, path)
       THEN \* metadata endpoint, answered before the middleware
            /\ Answer(r, MetadataResponse)
            /\ UNCHANGED <<atxpMiddleware, currentContext, calls>>
     ELSE IF atxpMiddleware = Null /\ InitATXPThrows(env)
       THEN \* initATXP throws; the catch block logs and continues
            /\ RouteWith(r, path, EmptyProps)
            /\ UNCHANGED <<atxpMiddleware, currentContext, ctxSeen, calls>>
     ELSE /\ atxpMiddleware' = [config |-> [Config EXCEPT !.mountPath = mountPath]]
          /\ IF PathIsMounted(method, path, mountPath)
               THEN \* clearATXPWorkerContext(), then await the body
                    /\ currentContext' = Null
                    /\ pc' = [pc EXCEPT ![r] = "body"]
                    /\ UNCHANGED <<props, ctxSeen, resp, calls>>
               ELSE \* parseMcpRequest returns [] at once
                    /\ currentContext' = Null
                    /\ calls' = [calls EXCEPT ![r] = 0]
                    /\ ContinueAfterMiddleware(r, path, Null)
  /\ UNCHANGED <<env, atxpMcpApi, apiCall, authHeader, tokenCheck,
                 introspections, introspectResult, tool>>

\* A request arrives at the worker as index.ts configures it.
Fetch(r) ==
  /\ pc[r] = "idle"
  /\ \E method \in Methods, path \in Paths :
       /\ req' = [req EXCEPT ![r] = [method |-> method, path |-> path]]
       /\ FetchWith(r, method, path, Config.mountPath)

\* The body has been read: parseMcpRequest finishes; with an empty list
\* handleRequest returns null, otherwise checkToken reads the header and
\* either decides or calls the introspector.
BodyReadWith(r, body) ==
  /\ pc[r] = "body"
  /\ LET list == ParseBody(body) IN
       /\ calls' = [calls EXCEPT ![r] = Len(list)]
       /\ IF Len(list) = 0
            THEN /\ ContinueAfterMiddleware(r, req[r].path, currentContext)
                 /\ UNCHANGED <<authHeader, tokenCheck, introspections>>
            ELSE \E h \in AuthHeaders :
                   LET verdict == CheckHeader(Origin, h) IN
                   /\ authHeader' = [authHeader EXCEPT ![r] = h]
                   /\ IF verdict # Null
                        THEN /\ tokenCheck' = [tokenCheck EXCEPT ![r] = verdict]
                             /\ Answer(r, SendOAuthChallenge(verdict))
                             /\ UNCHANGED introspections
                        ELSE /\ introspections' =
                                  [introspections EXCEPT ![r] = @ + 1]
                             /\ pc' = [pc EXCEPT ![r] = "introspect"]
                             /\ UNCHANGED <<tokenCheck, props, ctxSeen, resp>>
  /\ UNCHANGED <<env, atxpMiddleware, atxpMcpApi, apiCall, currentContext, req,
                 introspectResult, tool>>

BodyRead(r) == \E body \in Bodies : BodyReadWith(r, body)

\* The introspector answered or threw: checkToken returns its verdict,
\* handleRequest sends the challenge or installs the context and awaits
\* the dynamic import of ./index.js.
Introspected(r) ==
  /\ pc[r] = "introspect"
  /\ \E outcome \in IntrospectOutcomes :
       LET verdict == CheckIntrospection(Origin, TokenOf(authHeader[r]), outcome)
       IN  /\ introspectResult' = [introspectResult EXCEPT ![r] = outcome]
           /\ IF verdict = Raised
                THEN \* the catch block of handleRequest
                     /\ Answer(r, MiddlewareErrorResponse)
                     /\ UNCHANGED <<currentContext, tokenCheck>>
              ELSE IF SendOAuthChallenge(verdict) # Null
                THEN /\ tokenCheck' = [tokenCheck EXCEPT ![r] = verdict]
                     /\ Answer(r, SendOAuthChallenge(verdict))
                     /\ UNCHANGED currentContext
              ELSE /\ tokenCheck' = [tokenCheck EXCEPT ![r] = verdict]
                   /\ currentContext' = NewContext(r, verdict)
                   /\ pc' = [pc EXCEPT ![r] = "import"]
                   /\ UNCHANGED <<props, ctxSeen, resp>>
  /\ UNCHANGED <<env, atxpMiddleware, atxpMcpApi, apiCall, req, calls, authHeader,
                 introspections, tool>>

\* The dynamic import resolved: handleRequest returns null and fetch
\* continues with whatever context is current now.
Imported(r) ==
  /\ pc[r] = "import"
  /\ ContinueAfterMiddleware(r, req[r].path, currentContext)
  /\ UNCHANGED <<env, atxpMiddleware, atxpMcpApi, apiCall, currentContext, req, calls,
                 authHeader, tokenCheck, introspections, introspectResult,
                 tool>>

\* The agent answers the forwarded request (at once on the SSE message
\* endpoint, with a stream on the streamable HTTP endpoint).
AgentRespond(r) ==
  /\ pc[r] = "agent"
  /\ pc' = [pc EXCEPT ![r] = "replied"]
  /\ UNCHANGED <<env, atxpMiddleware, atxpMcpApi, apiCall, currentContext, req, calls,
                 authHeader, tokenCheck, introspections, introspectResult,
                 ctxSeen, props, resp, tool>>

\* ------------------------------------------------------------------------
\* The hello_world tool (src/src/index.ts) and requirePayment
\* ------------------------------------------------------------------------

ToolUnchanged ==
  UNCHANGED <<env, atxpMiddleware, atxpMcpApi, apiCall, currentContext, pc, req, calls,
              authHeader, tokenCheck, introspections, introspectResult,
              ctxSeen, props, resp>>

\* The agent runs hello_world for a forwarded POST (a tools/call message);
\* the handler calls requirePayment, which first awaits a dynamic import.
ToolCall(r) ==
  /\ Forwarded(r)
  /\ req[r].method = "POST"
  /\ tool[r].pc = "none"
  /\ tool' = [tool EXCEPT ![r].pc = "import", ![r].price = PriceCents]
  /\ ToolUnchanged

\* requirePayment without its test for a missing user: the charge is
\* sent with an undefined source.
RequirePaymentStart_NoUserCheck(t, authenticatedUser, ctx, api) ==
  LET config == ResolveConfig(ctx, api)
      user   == ResolveUser(authenticatedUser, ctx)
      seen   == [t EXCEPT !.ctxOwner = IF ctx = Null THEN None ELSE ctx.owner,
                          !.ctxUser = AtxpAccountId(ctx)]
  IN  IF config = Null
        THEN [seen EXCEPT !.pc = "failed", !.error = ErrNoConfig]
      ELSE [seen EXCEPT !.pc = "charging",
              !.charge = ChargeOf(t.price, config, user),
              !.chargeCalls = @ + 1, !.log = Append(@, "charge")]

\* requirePayment from the context lookup to the call of charge, for the
\* tool invocation t with props.user = authenticatedUser: the config and
\* the user are resolved, then the charge is built and sent.
RequirePaymentStart(t, authenticatedUser, ctx, api) ==
  LET config == ResolveConfig(ctx, api)
      user   == ResolveUser(authenticatedUser, ctx)
      seen   == [t EXCEPT !.ctxOwner = IF ctx = Null THEN None ELSE ctx.owner,
                          !.ctxUser = AtxpAccountId(ctx)]
  IN  IF config = Null
        THEN [seen EXCEPT !.pc = "failed", !.error = ErrNoConfig]
      ELSE IF user = None
        THEN [seen EXCEPT !.pc = "failed", !.error = ErrNoUser]
      ELSE [seen EXCEPT !.pc = "charging",
              !.charge = ChargeOf(t.price, config, user),
              !.chargeCalls = @ + 1, !.log = Append(@, "charge")]

RequirePaymentResume(r) ==
  /\ tool[r].pc = "import"
  /\ tool' = [tool EXCEPT ![r] =
               RequirePaymentStart(tool[r], props[r].user, currentContext,
                                   atxpMcpApi)]
  /\ ToolUnchanged

\* What charge can do: resolve with success true or false, or reject.
ChargeResults == {"success", "declined", "throws"}

\* What the pending-payment hook can do when it is consulted: it is not
\* supplied, finds nothing, finds an id, or throws.
HookOutcomes == {"absent", "nothing", "pr_pending", "throws"}

\* requirePayment that logs a declined charge without a pending id and
\* returns normally instead of creating a payment request and throwing.
AfterCharge_DeclineReturns(t, result, hook, tagged) ==
  IF result = "success" THEN [t EXCEPT !.pc = "result"]
  ELSE IF result = "throws" \/ hook = "throws"
    THEN [t EXCEPT !.pc = "failed",
            !.error = CatchPaymentError(TransportError(tagged))]
  ELSE IF hook = "pr_pending"
    THEN [t EXCEPT !.pc = "failed",
            !.error = CatchPaymentError(
               PaymentRequiredError(Config.server, hook, t.charge.amount,
                                    tagged))]
  ELSE [t EXCEPT !.pc = "result"]

\* requirePayment that calls charge a second time when the first call
\* threw.
AfterCharge_RetriesOnce(t, result, hook, tagged) ==
  LET c == IF hook = "absent" THEN t
           ELSE [t EXCEPT !.hook = hook, !.log = Append(@, "lookup")]
  IN  IF result = "success" THEN [t EXCEPT !.pc = "result"]
      ELSE IF result = "throws" /\ t.chargeCalls < 2
        THEN [t EXCEPT !.chargeCalls = @ + 1, !.log = Append(@, "charge")]
      ELSE IF result = "throws"
        THEN [t EXCEPT !.pc = "failed",
                !.error = CatchPaymentError(TransportError(tagged))]
      ELSE IF hook = "throws"
        THEN [c EXCEPT !.pc = "failed",
                !.error = CatchPaymentError(TransportError(tagged))]
      ELSE IF hook = "pr_pending"
        THEN [c EXCEPT !.pc = "failed",
                !.error = CatchPaymentError(
                   PaymentRequiredError(Config.server, hook, t.charge.amount,
                                        tagged))]
      ELSE [c EXCEPT !.pc = "creating", !.createArg = t.charge,
              !.createCalls = @ + 1, !.log = Append(@, "create")]

\* requirePayment that consults the pending-payment hook whatever charge
\* answered.
AfterCharge_LookupOnSuccess(t, result, hook, tagged) ==
  LET c == IF hook = "absent" THEN t
           ELSE [t EXCEPT !.hook = hook, !.log = Append(@, "lookup")]
  IN  IF result = "success" THEN [c EXCEPT !.pc = "result"]
      ELSE IF result = "throws"
        THEN [t EXCEPT !.pc = "failed",
                !.error = CatchPaymentError(TransportError(tagged))]
      ELSE IF hook = "throws"
        THEN [c EXCEPT !.pc = "failed",
                !.error = CatchPaymentError(TransportError(tagged))]
      ELSE IF hook = "pr_pending"
        THEN [c EXCEPT !.pc = "failed",
                !.error = CatchPaymentError(
                   PaymentRequiredError(Config.server, hook, t.charge.amount,
                                        tagged))]
      ELSE [c EXCEPT !.pc = "creating", !.createArg = t.charge,
              !.createCalls = @ + 1, !.log = Append(@, "create")]

\* requirePayment after charge settled: normal return on success (the
\* tool body then produces its result); after a decline the hook is
\* consulted and, without a pending id, createPaymentRequest is called.
AfterCharge(t, result, hook, tagged) ==
  LET c == IF hook = "absent" THEN t
           ELSE [t EXCEPT !.hook = hook, !.log = Append(@, "lookup")]
  IN  IF result = "success" THEN [t EXCEPT !.pc = "result"]
      ELSE IF result = "throws"
        THEN [t EXCEPT !.pc = "failed",
                !.error = CatchPaymentError(TransportError(tagged))]
      ELSE IF hook = "throws"
        THEN [c EXCEPT !.pc = "failed",
                !.error = CatchPaymentError(TransportError(tagged))]
      ELSE IF hook = "pr_pending"
        THEN [c EXCEPT !.pc = "failed",
                !.error = CatchPaymentError(
                   PaymentRequiredError(Config.server, hook, t.charge.amount,
                                        tagged))]
      ELSE [c EXCEPT !.pc = "creating", !.createArg = t.charge,
              !.createCalls = @ + 1, !.log = Append(@, "create")]

ChargeReturn(r) ==
  /\ tool[r].pc = "charging"
  /\ \E result \in ChargeResults, hook \in HookOutcomes, tagged \in BOOLEAN :
       tool' = [tool EXCEPT ![r] =
                  [AfterCharge(tool[r], result, hook, tagged)
                     EXCEPT !.chargeResult = result]]
  /\ ToolUnchanged

\* What createPaymentRequest can do: resolve with a new id, or reject.
CreateResults == {"pr_123", "pr_new", "throws"}

\* requirePayment after createPaymentRequest settled.
AfterCreate(t, result, tagged) ==
  IF result = "throws"
    THEN [t EXCEPT !.pc = "failed",
            !.error = CatchPaymentError(TransportError(tagged))]
    ELSE [t EXCEPT !.pc = "failed",
            !.error = CatchPaymentError(
               PaymentRequiredError(Config.server, result, t.charge.amount,
                                    tagged))]

CreateReturn(r) ==
  /\ tool[r].pc = "creating"
  /\ \E result \in CreateResults, tagged \in BOOLEAN :
       tool' = [tool EXCEPT ![r] =
                  [AfterCreate(tool[r], result, tagged)
                     EXCEPT !.createResult = result]]
  /\ ToolUnchanged

Next ==
  \E r \in Req :
    \/ Fetch(r)
    \/ BodyRead(r)
    \/ Introspected(r)
    \/ Imported(r)
    \/ AgentRespond(r)
    \/ ToolCall(r)
    \/ RequirePaymentResume(r)
    \/ ChargeReturn(r)
    \/ CreateReturn(r)

Spec == Init /\ [][Next]_vars

\* ------------------------------------------------------------------------
\* sendOAuthChallenge as a function of the verdict: every request holds a
\* verdict from the start and the only step answers it.
\* ------------------------------------------------------------------------

\* The problems sendOAuthChallenge has a case for.
KnownProblems ==
  {"NO_TOKEN", "NON_BEARER_AUTH_HEADER", "INVALID_TOKEN", "INVALID_AUDIENCE",
   "NON_SUFFICIENT_FUNDS", "INTROSPECT_ERROR"}

\* Problems that reach the default case of the switch.
UnknownProblems == {"INSUFFICIENT_FUNDS", "TOKEN_REVOKED"}

\* Origins the worker is served from.
Resources ==
  {Origin, [protocol |-> "http:", host |-> "localhost:8787", pathname |-> "/"]}

\* A resource and a verdict checkToken-shaped for it: failing with any
\* problem, or passing with what the introspector answered.
ChallengeInputs ==
  {[resource |-> res, verdict |-> Failure(res, p, "tok")] :
      res \in Resources, p \in KnownProblems \cup UnknownProblems}
    \cup
  {[resource |-> res,
    verdict  |-> [passes |-> TRUE, data |-> d, token |-> "tok"]] :
      res \in Resources, d \in {x \in IntrospectResults : x.active}}

InitChallenge ==
  /\ env \in {e \in Envs : ~InitATXPThrows(e)}
  /\ atxpMiddleware = Null
  /\ atxpMcpApi = Uninitialized
  /\ apiCall = NoApiCall
  /\ currentContext = Null
  /\ pc = [r \in Req |-> "idle"]
  /\ \E in \in [Req -> ChallengeInputs] :
       /\ req = [r \in Req |-> [resource |-> in[r].resource]]
       /\ tokenCheck = [r \in Req |-> in[r].verdict]
  /\ calls = [r \in Req |-> -1]
  /\ authHeader = [r \in Req |-> Unread]
  /\ introspections = [r \in Req |-> 0]
  /\ introspectResult = [r \in Req |-> Null]
  /\ ctxSeen = [r \in Req |-> Unread]
  /\ props = [r \in Req |-> EmptyProps]
  /\ resp = [r \in Req |-> Null]
  /\ tool = [r \in Req |-> NoTool]

\* const challenge = this.sendOAuthChallenge(tokenCheck)
Challenge(r) ==
  /\ pc[r] = "idle"
  /\ pc' = [pc EXCEPT ![r] = "done"]
  /\ resp' = [resp EXCEPT ![r] = SendOAuthChallenge(tokenCheck[r])]
  /\ UNCHANGED <<env, atxpMiddleware, atxpMcpApi, apiCall, currentContext, req, calls,
                 authHeader, tokenCheck, introspections, introspectResult,
                 ctxSeen, props, tool>>

NextChallenge == \E r \in Req : Challenge(r)

SpecChallenge == InitChallenge /\ [][NextChallenge]_vars

\* ------------------------------------------------------------------------
\* The classifier as a function of the request: one request holds its
\* method, path and body from the start, the middleware is configured with
\* some mount path, and fetch runs on it up to the end of handleRequest.
\* ------------------------------------------------------------------------

\* config.mountPath values, with and without a trailing slash.
MountPaths == {"/", "/mcp", "/mcp/"}

\* Request paths at, below and beside those mount paths.
ClassifyPaths ==
  {"/", "/message", "/message/", "/mcp", "/mcp/", "/mcp//", "/mcp/message",
   "/mcp/message/", "/mcp/other", "/mcpx", "/sse", "/sse/", "/sse/message",
   WellKnownPath}

ClassifyInputs ==
  [method : Methods, path : ClassifyPaths, mountPath : MountPaths,
   body : Bodies]

InitClassify ==
  /\ env \in {e \in Envs : ~InitATXPThrows(e)}
  /\ atxpMiddleware = Null
  /\ atxpMcpApi = Uninitialized
  /\ apiCall = NoApiCall
  /\ currentContext = Null
  /\ pc = [r \in Req |-> "idle"]
  /\ \E in \in ClassifyInputs : req = [r \in Req |-> IF r = "A" THEN in ELSE Null]
  /\ calls = [r \in Req |-> -1]
  /\ authHeader = [r \in Req |-> Unread]
  /\ tokenCheck = [r \in Req |-> Null]
  /\ introspections = [r \in Req |-> 0]
  /\ introspectResult = [r \in Req |-> Null]
  /\ ctxSeen = [r \in Req |-> Unread]
  /\ props = [r \in Req |-> EmptyProps]
  /\ resp = [r \in Req |-> Null]
  /\ tool = [r \in Req |-> NoTool]

\* fetch on the request r holds.
ClassifyFetch(r) ==
  /\ pc[r] = "idle"
  /\ req[r] # Null
  /\ FetchWith(r, req[r].method, req[r].path, req[r].mountPath)
  /\ UNCHANGED req

\* parseMcpRequest resumes with the body r holds.
ClassifyBody(r) == BodyReadWith(r, req[r].body)

NextClassify ==
  \E r \in Req :
    \/ ClassifyFetch(r)
    \/ ClassifyBody(r)
    \/ Introspected(r)
    \/ Imported(r)

SpecClassify == InitClassify /\ [][NextClassify]_vars

\* ------------------------------------------------------------------------
\* The life cycle of ATXPMcpApi: calls of its static methods and of the
\* worker wrappers, in any order, within one process.
\* ------------------------------------------------------------------------

ApiUnchanged ==
  UNCHANGED <<env, atxpMiddleware, currentContext, pc, req, calls,
              authHeader, tokenCheck, introspections, introspectResult,
              ctxSeen, props, resp, tool>>

\* The call op with the given options ended with the outcome out.
Called(op, options, out, flag) ==
  /\ atxpMcpApi' = out.api
  /\ apiCall' =
       [ op |-> op, options |-> options, error |-> out.error,
         value |-> out.value, flag |-> flag, inits |-> out.inits,
         lastChange |-> IF op = "reset" THEN "reset"
                        ELSE IF out.inits > 0 /\ out.error = None THEN "init"
                        ELSE apiCall.lastChange ]
  /\ ApiUnchanged

InitCall ==
  \E options \in McpOptions, builds \in BOOLEAN :
    Called("init", options, ApiInit(atxpMcpApi, options, builds), FALSE)

ResetCall == Called("reset", Null, ApiReset(atxpMcpApi), FALSE)

GetMiddlewareCall ==
  Called("getMiddleware", Null, ApiGetMiddleware(atxpMcpApi), FALSE)

GetConfigCall == Called("getConfig", Null, ApiGetConfig(atxpMcpApi), FALSE)

IsInitializedCall ==
  Called("isInitialized", Null, Outcome(atxpMcpApi, None, Null, 0),
         IsInitialized(atxpMcpApi))

\* atxpCloudflareWorker(options) creates a handler.
WorkerCreated ==
  \E options \in McpOptions, builds \in BOOLEAN :
    Called("atxpCloudflareWorker", options,
           AtxpCloudflareWorker(atxpMcpApi, options, builds), FALSE)

\* A request arrives at the handler of atxpCloudflareWorkerFromEnv.
WorkerFromEnvFetch ==
  \E serviceName \in {None, "My MCP Server"}, builds \in BOOLEAN :
    Called("atxpCloudflareWorkerFromEnv",
           [ fundingDestination |-> env.FUNDING_DESTINATION,
             fundingNetwork     |-> env.FUNDING_NETWORK,
             payeeName          |-> serviceName ],
           AtxpCloudflareWorkerFromEnv(atxpMcpApi, env, serviceName, builds),
           FALSE)

NextApi ==
  \/ InitCall
  \/ ResetCall
  \/ GetMiddlewareCall
  \/ GetConfigCall
  \/ IsInitializedCall
  \/ WorkerCreated
  \/ WorkerFromEnvFetch

SpecApi == Init /\ [][NextApi]_vars

\* ------------------------------------------------------------------------
\* requirePayment as a function of its inputs: the tool of request A is
\* about to resume requirePayment with some props, some current context
\* (none, A's own or another request's) and ATXPMcpApi initialised or not.
\* ------------------------------------------------------------------------

\* The contexts handleRequest can have installed.
Contexts ==
  {[owner |-> o, config |-> Config, tokenData |-> d] :
     o \in Req, d \in {x \in IntrospectResults : x.active}}

InitPayment ==
  /\ env \in {e \in Envs : ~InitATXPThrows(e)}
  /\ atxpMiddleware = [config |-> Config]
  /\ \/ atxpMcpApi = Uninitialized /\ apiCall = NoApiCall
     \/ \E o \in McpOptions :
          LET out == ApiInit(Uninitialized, o, TRUE) IN
          /\ out.error = None
          /\ atxpMcpApi = out.api
          /\ apiCall = [NoApiCall EXCEPT !.op = "init", !.options = o,
                                         !.inits = 1, !.lastChange = "init"]
  /\ currentContext \in {Null} \cup Contexts
  /\ pc = [r \in Req |-> IF r = "A" THEN "agent" ELSE "idle"]
  /\ req = [r \in Req |-> IF r = "A" THEN [method |-> "POST", path |-> "/"]
                          ELSE Null]
  /\ calls = [r \in Req |-> -1]
  /\ authHeader = [r \in Req |-> Unread]
  /\ tokenCheck = [r \in Req |-> Null]
  /\ introspections = [r \in Req |-> 0]
  /\ introspectResult = [r \in Req |-> Null]
  /\ ctxSeen = [r \in Req |-> Unread]
  /\ \E u \in {None} \cup Subjects :
       props = [r \in Req |-> IF r = "A" THEN [user |-> u, sub |-> u]
                              ELSE EmptyProps]
  /\ resp = [r \in Req |-> Null]
  /\ tool = [r \in Req |-> IF r = "A"
                             THEN [NoTool EXCEPT !.pc = "import",
                                                 !.price = PriceCents]
                           ELSE NoTool]

NextPayment ==
  \E r \in Req :
    \/ RequirePaymentResume(r)
    \/ ChargeReturn(r)
    \/ CreateReturn(r)

SpecPayment == InitPayment /\ [][NextPayment]_vars

\* ------------------------------------------------------------------------
\* Observations used by the properties
\* ------------------------------------------------------------------------

\* The pipeline's own response to r, field by field (0 / None before).
StatusOf(r)      == IF resp[r] = Null THEN 0 ELSE resp[r].status
ErrorOf(r)       == IF resp[r] = Null THEN None ELSE resp[r].error
DescriptionOf(r) == IF resp[r] = Null THEN None ELSE resp[r].error_description
ChallengeOf(r)   == IF resp[r] = Null THEN None ELSE resp[r].wwwAuthenticate

\* The classifier ran for r and found at least one RpcCall.
Gated(r) == calls[r] > 0

\* checkToken returned a passing verdict for r.
VerdictPassed(r) == tokenCheck[r] # Null /\ tokenCheck[r].passes

\* r is a POST to the mount path or its /message endpoint.
MountedPost(r) ==
  /\ req[r] # Null
  /\ PathIsMounted(req[r].method, req[r].path, Config.mountPath)

\* r is suspended inside fetch or handleRequest.
InFetch(r) == pc[r] \in {"body", "introspect", "import"}

\* ------------------------------------------------------------------------
\* Properties
\* ------------------------------------------------------------------------

\* C1 (as claimed; refuted): a POST to the mount path reaches the agent
\* only after the classifier ran on it and either found no JSON-RPC call
\* or the token verdict of that same request passed; in particular a
\* request whose middleware initialisation failed never reaches the agent.
C1_AgentOnlyBehindGate ==
  \A r \in Req :
    (Forwarded(r) /\ MountedPost(r)) =>
      (calls[r] = 0 \/ (Gated(r) /\ VerdictPassed(r)))

\* C2: the hello_world tool produces its result only after charge
\* returned success = true in the same requirePayment invocation; after a
\* declined or failed charge, or any other error of requirePayment, the
\* tool body is not executed.
C2_PaymentBeforeWork ==
  \A r \in Req :
    /\ tool[r].pc = "result" =>
         (tool[r].chargeResult = "success" /\ tool[r].error = NoError)
    /\ (tool[r].chargeResult \in {"declined", "throws"}
          \/ tool[r].error # NoError) => tool[r].pc # "result"

C2_Witness ==
  \E r \in Req :
    /\ tool[r].pc = "result"
    /\ tool[r].chargeResult = "success"
    /\ tool[r].charge.amount = PriceCents

\* C3 (as claimed; refuted): the context a request gets from
\* getATXPWorkerContext, in fetch or in requirePayment, is its own or
\* none, and while a request that installed its context has not yet read
\* it back, the current context is still the one it installed.
C3_RequestIsolation ==
  \A r \in Req :
    /\ ctxSeen[r] \in {Unread, None, r}
    /\ tool[r].ctxOwner \in {Unread, None, r}
    /\ pc[r] = "import" =>
         (currentContext # Null /\ currentContext.owner = r)

\* C4 (as claimed; refuted): once fetch has ended for a request and no
\* other request is inside fetch, the process-wide context is empty.
C4_ContextClearedAtEnd ==
  ((\E r \in Req : pc[r] \in {"done", "agent", "replied"})
     /\ (\A q \in Req : ~InFetch(q)))
    => currentContext = Null

\* C5 (as claimed; refuted): no call of getATXPWorkerContext, in fetch or
\* in requirePayment, returns a context that was installed by a request
\* that has already returned its response.
C5_NoReadAfterCompletion ==
  [][\A r \in Req :
       /\ (ctxSeen[r] = Unread /\ ctxSeen'[r] \notin {Unread, None})
            => ~Completed(ctxSeen'[r])
       /\ (tool[r].ctxOwner = Unread /\ tool'[r].ctxOwner \notin {Unread, None})
            => ~Completed(tool'[r].ctxOwner)]_vars

\* C6 (as claimed; refuted): the source of every charge sent for a tool
\* invocation is the subject verified for the request that triggered it.
C6_ChargeAttribution ==
  \A r \in Req :
    tool[r].charge.source # None =>
      (VerdictPassed(r) /\ tool[r].charge.source = tokenCheck[r].data.sub)

\* C7: a gated request without an Authorization header is answered with
\* status 401, a body without error and error_description, and a
\* WWW-Authenticate header naming the resource metadata URL.
C7_NoTokenChallenge ==
  \A r \in Req :
    (Gated(r) /\ authHeader[r] = None) =>
      /\ pc[r] = "done"
      /\ StatusOf(r) = 401
      /\ ErrorOf(r) = None
      /\ DescriptionOf(r) = None
      /\ ChallengeOf(r) = "Bearer resource_metadata=\"https://host/.well-known/oauth-protected-resource/\""

C7_Witness ==
  \E r \in Req :
    Gated(r) /\ authHeader[r] = None /\ StatusOf(r) = 401

\* C8 (as claimed; refuted): a gated request whose Authorization header is
\* present but does not start with 'Bearer ' is answered with status 400
\* and error invalid_request, and the introspector is not called.
C8_NonBearerRejected ==
  \A r \in Req :
    (Gated(r) /\ authHeader[r] \notin {Unread, None}
       /\ ~StartsWithBearer(authHeader[r])) =>
      /\ StatusOf(r) = 400
      /\ ErrorOf(r) = "invalid_request"
      /\ introspections[r] = 0

\* C8 (amended): a gated request whose Authorization header is present,
\* not empty and does not start with 'Bearer ' is answered with status 400
\* and error invalid_request, and the introspector is not called.
C8_NonEmptyNonBearerRejected ==
  \A r \in Req :
    (Gated(r) /\ authHeader[r] \notin {Unread, None, ""}
       /\ ~StartsWithBearer(authHeader[r])) =>
      /\ pc[r] = "done"
      /\ StatusOf(r) = 400
      /\ ErrorOf(r) = "invalid_request"
      /\ introspections[r] = 0

C8_Witness ==
  \E r \in Req :
    Gated(r) /\ authHeader[r] = "Basic abc" /\ StatusOf(r) = 400

\* C9: a gated request whose Bearer token the introspector reports as not
\* active is answered with status 401 and error invalid_token, and it
\* installs no request context and is not forwarded.
C9_InactiveTokenRejected ==
  \A r \in Req :
    (introspectResult[r] \notin {Null, Throws}
       /\ ~introspectResult[r].active) =>
      /\ pc[r] = "done"
      /\ StatusOf(r) = 401
      /\ ErrorOf(r) = "invalid_token"
      /\ (currentContext = Null \/ currentContext.owner # r)
      /\ ctxSeen[r] = Unread

C9_Witness ==
  \E r \in Req :
    /\ Gated(r)
    /\ StartsWithBearer(authHeader[r])
    /\ introspectResult[r] = [active |-> FALSE, sub |-> None]
    /\ StatusOf(r) = 401

\* C10: when the introspection throws, the verdict has the problem
\* INTROSPECT_ERROR, the response is 502 with error server_error (the
\* challenge, not the 500 of an exception that escaped checkToken), and
\* the request is not forwarded.
C10_IntrospectErrorIs502 ==
  \A r \in Req :
    introspectResult[r] = Throws =>
      /\ tokenCheck[r] # Null
      /\ ~tokenCheck[r].passes
      /\ tokenCheck[r].problem = "INTROSPECT_ERROR"
      /\ pc[r] = "done"
      /\ StatusOf(r) = 502
      /\ ErrorOf(r) = "server_error"
      /\ DescriptionOf(r) = "An internal server error occurred"

C10_Witness ==
  \E r \in Req :
    Gated(r) /\ introspectResult[r] = Throws /\ StatusOf(r) = 502

C12_ChallengeCarriesMetadataUrl ==
  \A r \in Req :
    pc[r] = "done" =>
      /\ (resp[r] # Null) <=> ~tokenCheck[r].passes
      /\ resp[r] # Null =>
           /\ tokenCheck[r].resourceMetadataUrl =
                req[r].resource.protocol \o "//" \o req[r].resource.host
                  \o "/.well-known/oauth-protected-resource"
                  \o req[r].resource.pathname
           /\ ChallengeOf(r) =
                "Bearer resource_metadata=\""
                  \o tokenCheck[r].resourceMetadataUrl \o "\""

C12_Witness ==
  \E r \in Req :
    /\ pc[r] = "done"
    /\ ~tokenCheck[r].passes
    /\ tokenCheck[r].problem \in UnknownProblems
    /\ ChallengeOf(r) =
         "Bearer resource_metadata=\"http://localhost:8787/.well-known/oauth-protected-resource/\""

\* C13 (as claimed; refuted): every passing verdict carries claims that
\* include a subject, so the context a request installs after passing the
\* gate has a non-null resolved identity.
C13_PassingVerdictHasSubject ==
  \A r \in Req :
    VerdictPassed(r) =>
      /\ tokenCheck[r].data # Null
      /\ Truthy(tokenCheck[r].data.sub)
      /\ (currentContext # Null /\ currentContext.owner = r) =>
           Truthy(CtxAccountId(currentContext))

\* C14 (as claimed, for the paths the router serves; refuted): a gated
\* request whose Bearer token introspects as active with subject S is
\* handed to the agent, the context its fetch reads is the one it built
\* and the props given to the agent carry user = S.
C14_ActiveTokenReachesAgent ==
  \A r \in Req :
    ( /\ Gated(r)
      /\ RoutesToAgent(req[r].path)
      /\ introspectResult[r] \in IntrospectResults
      /\ introspectResult[r].active
      /\ introspectResult[r].sub \in Subjects
      /\ pc[r] \notin {"introspect", "import"} ) =>
        /\ Forwarded(r)
        /\ ctxSeen[r] = r
        /\ props[r].user = introspectResult[r].sub
        /\ props[r].sub = introspectResult[r].sub

\* C15: the classifier returns the empty list unless the method is POST
\* and the path, a trailing slash removed, equals the mount path, a
\* trailing slash removed, or that followed by /message.
C15_ClassifierNeedsMountedPost ==
  \A r \in Req :
    (req[r] # Null /\ calls[r] >= 0 /\ pc[r] # "body") =>
      LET p == StripTrailingSlash(req[r].path)
          m == StripTrailingSlash(req[r].mountPath)
      IN  (req[r].method = "POST" /\ (p = m \/ p = m \o "/message"))
            \/ calls[r] = 0

C15_Witness ==
  \E r \in Req :
    /\ req[r] # Null
    /\ req[r].method = "POST"
    /\ req[r].path = "/mcp/other"
    /\ req[r].mountPath = "/mcp/"
    /\ req[r].body = [kind |-> "json", value |-> JCall]
    /\ calls[r] = 0

\* C16: when the body of a POST to the mount path is empty, is not JSON,
\* or is JSON but neither a JSON-RPC object nor an array of them (as {}
\* or "hello"), the classifier returns the empty list, no token is
\* checked, no challenge is sent and the request goes on to the router
\* without authentication.
C16_NonRpcBodyIsNotGated ==
  \A r \in Req :
    ( /\ req[r] # Null
      /\ PathIsMounted(req[r].method, req[r].path, req[r].mountPath)
      /\ pc[r] \notin {"idle", "body"}
      /\ \/ req[r].body.kind \in {"empty", "malformed"}
         \/ req[r].body.value \in
              {JEmptyObj, JString, JNull, JOldRpc, JArr(<<>>), JArr(<<JString>>)} ) =>
        /\ calls[r] = 0
        /\ authHeader[r] = Unread
        /\ tokenCheck[r] = Null
        /\ introspections[r] = 0
        /\ ChallengeOf(r) = None
        /\ StatusOf(r) \in {0, 404}
        /\ pc[r] \in {"agent", "done"}

C16_Witness ==
  \E r \in Req :
    /\ req[r] # Null
    /\ req[r].method = "POST"
    /\ req[r].path = "/"
    /\ req[r].mountPath = "/"
    /\ req[r].body = [kind |-> "json", value |-> JEmptyObj]
    /\ calls[r] = 0
    /\ pc[r] = "agent"

\* C17 (as claimed; refuted): an entry counts as an RpcCall iff it is an
\* object whose jsonrpc is "2.0", whose method is a non-empty string and
\* whose id is defined (0 and "" are defined, a missing id is not); this
\* holds for a single object and for every element of a batch.
C17_RpcCallCriterion ==
  \A r \in Req :
    ( /\ req[r] # Null
      /\ PathIsMounted(req[r].method, req[r].path, req[r].mountPath)
      /\ pc[r] \notin {"idle", "body"}
      /\ req[r].body.kind = "json" ) =>
        LET Counts(msg) ==
              /\ msg.t = "object"
              /\ msg.jsonrpc = "2.0"
              /\ msg.methodType = "string"
              /\ msg.method # ""
              /\ msg.id # None
            v == req[r].body.value
        IN  IF v.t = "array"
              THEN calls[r] =
                     Cardinality({i \in DOMAIN v.elems : Counts(v.elems[i])})
              ELSE calls[r] = (IF Counts(v) THEN 1 ELSE 0)

\* C18: a request to /.well-known/oauth-protected-resource, whatever its
\* method, is answered 200 with the metadata document before the
\* middleware runs: the classifier is not run, no header is read, no
\* verdict is made and the introspector is not called.
C18_MetadataEndpointBypassesGate ==
  \A r \in Req :
    (req[r] # Null /\ req[r].path = WellKnownPath) =>
      /\ pc[r] = "done"
      /\ resp[r] = MetadataResponse
      /\ StatusOf(r) = 200
      /\ calls[r] = -1
      /\ authHeader[r] = Unread
      /\ tokenCheck[r] = Null
      /\ introspections[r] = 0

C18_Witness ==
  \E r \in Req :
    /\ req[r] # Null
    /\ req[r].path = WellKnownPath
    /\ req[r].method = "POST"
    /\ StatusOf(r) = 200

C20_AmountIsThePrice ==
  \A r \in Req :
    /\ tool[r].chargeCalls > 0 =>
         /\ tool[r].price = PriceCents
         /\ tool[r].charge.amount = tool[r].price
         /\ tool[r].charge.currency = Config.currency
         /\ tool[r].charge.network = Config.network
         /\ tool[r].charge.destination = Config.destination
         /\ tool[r].charge.payeeName = Config.payeeName
    /\ tool[r].createCalls > 0 => tool[r].createArg = tool[r].charge
    /\ tool[r].error.kind = "payment_required" =>
         /\ tool[r].chargeCalls > 0
         /\ tool[r].error.chargeAmount = tool[r].price

C20_Witness ==
  \E r \in Req :
    /\ tool[r].createCalls = 1
    /\ tool[r].createArg.amount = PriceCents
    /\ tool[r].error.kind = "payment_required"
    /\ tool[r].error.paymentRequestId = "pr_new"
    /\ tool[r].error.chargeAmount = PriceCents

\* C21 (as claimed; refuted): when charge returned success = false and
\* the pending-payment lookup returned an id, requirePayment throws a
\* payment-required error carrying exactly that id, the lookup having
\* been consulted after charge and createPaymentRequest never called.
C21_PendingIdIsSignalled ==
  \A r \in Req :
    ( /\ tool[r].chargeResult = "declined"
      /\ tool[r].hook = "pr_pending" ) =>
        /\ tool[r].pc = "failed"
        /\ tool[r].log = <<"charge", "lookup">>
        /\ tool[r].createCalls = 0
        /\ tool[r].error.kind = "payment_required"
        /\ tool[r].error.paymentRequestId = "pr_pending"

\* C22 (as claimed; refuted): when charge returned success = false,
\* there is no pending id and createPaymentRequest, called with the
\* descriptor charge was called with, returned an id, the caller gets a
\* payment-required error with the authorization server, that id and the
\* price (createPaymentRequest returning pr_123 gives paymentRequestId
\* pr_123).
C22_CreatedIdIsSignalled ==
  \A r \in Req :
    ( /\ tool[r].chargeResult = "declined"
      /\ tool[r].hook \in {"none", "nothing"}
      /\ tool[r].createResult \in {"pr_123", "pr_new"} ) =>
        /\ tool[r].createCalls = 1
        /\ tool[r].createArg = tool[r].charge
        /\ tool[r].pc = "failed"
        /\ tool[r].error.kind = "payment_required"
        /\ tool[r].error.authorizationServer = Config.server
        /\ tool[r].error.paymentRequestId = tool[r].createResult
        /\ tool[r].error.chargeAmount = tool[r].price

\* C23 (as claimed; refuted): an error thrown by charge, by the lookup or
\* by createPaymentRequest reaches the caller as the generic processing
\* failure, never as a payment-required error or as it was thrown; a
\* payment-required error raised after a declined charge reaches the
\* caller as it was raised, never wrapped into a processing failure.
C23_PendingAndBrokenAreDistinct ==
  \A r \in Req :
    /\ ( \/ tool[r].chargeResult = "throws"
         \/ tool[r].hook = "throws"
         \/ tool[r].createResult = "throws" ) =>
           tool[r].error.kind = "processing_failed"
    /\ ( \/ tool[r].hook = "pr_pending"
         \/ tool[r].createResult \in {"pr_123", "pr_new"} ) =>
           tool[r].error.kind = "payment_required"

\* C24 (as claimed; refuted): when a payment request was created for a
\* declined charge and requirePayment runs again with the same
\* descriptor and is declined again, the second run yields the id of the
\* first and calls createPaymentRequest no second time.
C24_PendingChargeIsIdempotent ==
  \A r1, r2 \in Req :
    ( /\ r1 # r2
      /\ tool[r1].createResult \in {"pr_123", "pr_new"}
      /\ tool[r2].chargeResult = "declined"
      /\ tool[r2].charge = tool[r1].charge
      /\ tool[r2].pc = "failed"
      /\ tool[r2].hook # "throws"
      /\ tool[r2].createResult # "throws" ) =>
        /\ tool[r2].createCalls = 0
        /\ (IF tool[r2].hook = "pr_pending"
              THEN tool[r2].hook ELSE tool[r2].createResult)
             = tool[r1].createResult

\* C25: nothing is retried. No step makes a request's second
\* introspection, a tool invocation's second charge or its second
\* createPaymentRequest; a requirePayment that has failed makes no further
\* step, and a request the pipeline has answered itself stays answered
\* without a further introspection.
C25_NoAutomaticRetry ==
  [][ \A r \in Req :
        /\ introspections'[r] <= 1
        /\ tool'[r].chargeCalls <= 1
        /\ tool'[r].createCalls <= 1
        /\ tool[r].pc = "failed" => tool'[r] = tool[r]
        /\ pc[r] = "done" =>
             /\ pc'[r] = "done"
             /\ resp'[r] = resp[r]
             /\ introspections'[r] = introspections[r] ]_vars

C25_Witness ==
  \E r \in Req :
    /\ introspections[r] = 1
    /\ tool[r].pc = "failed"
    /\ tool[r].chargeCalls = 1
    /\ tool[r].createCalls = 1
    /\ tool[r].createResult = "throws"

\* C26 (as claimed; refuted): every failure response of the pipeline has
\* a JSON body with both error and error_description.
C26_FailuresAreStructured ==
  \A r \in Req :
    StatusOf(r) >= 400 =>
      /\ resp[r].contentType = "application/json"
      /\ resp[r].error # None
      /\ resp[r].error_description # None

\* C26 (amended): every failure response of the pipeline has a JSON body
\* with both error and error_description, except the challenge for a
\* missing token, whose JSON body is empty, and the answer to a path the
\* router does not serve, which is the plain text 'Not found'.
C26_FailuresAreStructuredButTwo ==
  \A r \in Req :
    StatusOf(r) >= 400 =>
      \/ /\ resp[r].contentType = "application/json"
         /\ resp[r].error # None
         /\ resp[r].error_description # None
      \/ /\ tokenCheck[r] # Null
         /\ ~tokenCheck[r].passes
         /\ tokenCheck[r].problem = "NO_TOKEN"
         /\ resp[r] = JsonResponse(401, None, None, ChallengeOf(r))
      \/ /\ ~RoutesToAgent(req[r].path)
         /\ resp[r] = NotFoundResponse

C26_Witness ==
  \E r \in Req :
    /\ StatusOf(r) = 400
    /\ resp[r].contentType = "application/json"
    /\ resp[r].error = "invalid_request"
    /\ resp[r].error_description =
         "Authorization header did not include a Bearer token"

\* C27 (as claimed; refuted): when the initialisation of the middleware
\* throws inside fetch, the request is answered with a 5xx response and
\* does not go on to the router.
C27_InfrastructureFailuresSurface ==
  \A r \in Req :
    ( /\ req[r] # Null
      /\ ~IsMetadataRequest(req[r].method, req[r].path)
      /\ InitATXPThrows(env) ) =>
        /\ pc[r] = "done"
        /\ StatusOf(r) >= 500
        /\ ~Forwarded(r)

\* C28 (as claimed; refuted): whenever handleRequest returns a response,
\* or returns null for a request in which the classifier found no call,
\* the current context is empty, and a request without calls that goes
\* on to the router carries no identity in its props.
C28_ContextEmptyOnReturn ==
  [][ \A r \in Req :
        ( /\ pc[r] \in {"idle", "body", "introspect"}
          /\ pc'[r] \in {"agent", "done"}
          /\ calls'[r] >= 0
          /\ (calls'[r] = 0 \/ resp'[r] # Null) ) =>
            /\ currentContext' = Null
            /\ calls'[r] = 0 => props'[r] = EmptyProps ]_vars

\* C29: within one requirePayment invocation the calls are made in the
\* order charge, pending lookup, createPaymentRequest, each at most once;
\* the lookup and createPaymentRequest are reached only after charge
\* returned success = false, createPaymentRequest only when a consulted
\* lookup found nothing, and when charge returns success = true
\* requirePayment returns normally having called neither.
C29_ChargeLookupCreateOrder ==
  \A r \in Req :
    /\ tool[r].log \in
         { <<>>, <<"charge">>, <<"charge", "lookup">>, <<"charge", "create">>,
           <<"charge", "lookup", "create">> }
    /\ Len(tool[r].log) > 1 => tool[r].chargeResult = "declined"
    /\ tool[r].log = <<"charge", "lookup", "create">> =>
         tool[r].hook = "nothing"
    /\ tool[r].chargeResult = "success" =>
         /\ tool[r].pc = "result"
         /\ tool[r].log = <<"charge">>
         /\ tool[r].hook = "none"
         /\ tool[r].createCalls = 0
         /\ tool[r].error = NoError

C29_Witness ==
  \E r \in Req :
    /\ tool[r].chargeResult = "declined"
    /\ tool[r].hook = "nothing"
    /\ tool[r].log = <<"charge", "lookup", "create">>
    /\ tool[r].createResult = "pr_new"

\* C30 (as claimed; refuted): a missing header gives NO_TOKEN; any
\* present header without the prefix 'Bearer ' gives
\* NON_BEARER_AUTH_HEADER; otherwise the introspector is called, once and
\* with the header's text after the prefix; it is called in no other
\* case, and every failing verdict carries the resource metadata URL.
C30_CheckTokenPrecedence ==
  \A r \in Req :
    authHeader[r] # Unread =>
      LET h == authHeader[r]
          v == tokenCheck[r]
      IN  /\ h = None =>
               /\ v # Null /\ ~v.passes /\ v.problem = "NO_TOKEN"
               /\ introspections[r] = 0
          /\ (h # None /\ ~StartsWithBearer(h)) =>
               /\ v # Null /\ ~v.passes /\ v.problem = "NON_BEARER_AUTH_HEADER"
               /\ introspections[r] = 0
          /\ (h # None /\ StartsWithBearer(h)) =>
               /\ introspections[r] = 1
               /\ v # Null => v.token = SubSeq(h, 8, Len(h))
          /\ (v # Null /\ ~v.passes) =>
               v.resourceMetadataUrl =
                 "https://host/.well-known/oauth-protected-resource/"

\* C30 (amended): a missing or empty header gives NO_TOKEN; any other
\* header without the prefix 'Bearer ' gives NON_BEARER_AUTH_HEADER;
\* otherwise the introspector is called, once and with the header's text
\* after the prefix; it is called in no other case, and every failing
\* verdict carries the resource metadata URL.
C30_CheckTokenPrecedenceEmptyAsMissing ==
  \A r \in Req :
    authHeader[r] # Unread =>
      LET h == authHeader[r]
          v == tokenCheck[r]
      IN  /\ h \in {None, ""} =>
               /\ v # Null /\ ~v.passes /\ v.problem = "NO_TOKEN"
               /\ introspections[r] = 0
          /\ (h \notin {None, ""} /\ ~StartsWithBearer(h)) =>
               /\ v # Null /\ ~v.passes /\ v.problem = "NON_BEARER_AUTH_HEADER"
               /\ introspections[r] = 0
          /\ (h \notin {None, ""} /\ StartsWithBearer(h)) =>
               /\ introspections[r] = 1
               /\ v # Null => v.token = SubSeq(h, 8, Len(h))
          /\ (v # Null /\ ~v.passes) =>
               v.resourceMetadataUrl =
                 "https://host/.well-known/oauth-protected-resource/"

C30_Witness ==
  \E r \in Req :
    /\ authHeader[r] = "Bearer tok"
    /\ introspections[r] = 1
    /\ tokenCheck[r] # Null
    /\ ~tokenCheck[r].passes
    /\ tokenCheck[r].token = "tok"
    /\ tokenCheck[r].resourceMetadataUrl =
         "https://host/.well-known/oauth-protected-resource/"

\* C31 (as claimed; refuted): the verdict of a request, once made, never
\* changes, and when a request whose verdict passed leaves fetch, the
\* identity in the props given to the agent is the subject of that
\* verdict, as is the identity of the context its fetch read.
C31_OneVerdictOneIdentity ==
  [][ \A r \in Req :
        /\ tokenCheck[r] # Null => tokenCheck'[r] = tokenCheck[r]
        /\ ( /\ tokenCheck'[r] # Null
             /\ tokenCheck'[r].passes
             /\ pc'[r] \in {"agent", "replied", "done"} ) =>
               /\ ctxSeen'[r] = r
               /\ props'[r].sub = tokenCheck'[r].data.sub
               /\ props'[r].user = tokenCheck'[r].data.sub ]_vars

\* C32 (as claimed; refuted): a batch is gated iff at least one element
\* is an object with jsonrpc "2.0", a non-empty method string and an id;
\* the other elements are dropped from the list, so the list is as long
\* as the number of such elements, and a gated batch causes exactly one
\* token check however many calls it holds.
C32_BatchGatedByAnyCall ==
  \A r \in Req :
    ( /\ req[r] # Null
      /\ PathIsMounted(req[r].method, req[r].path, req[r].mountPath)
      /\ pc[r] \notin {"idle", "body"}
      /\ req[r].body.kind = "json"
      /\ req[r].body.value.t = "array" ) =>
        LET elems == req[r].body.value.elems
            Qualifies(msg) ==
              /\ msg.t = "object"
              /\ msg.jsonrpc = "2.0"
              /\ msg.methodType = "string"
              /\ msg.method # ""
              /\ msg.id # None
            n == Cardinality({i \in DOMAIN elems : Qualifies(elems[i])})
        IN  /\ Gated(r) <=> n > 0
            /\ calls[r] = n
            /\ Gated(r) => authHeader[r] # Unread
            /\ ~Gated(r) => authHeader[r] = Unread
            /\ introspections[r] <= 1

\* C33: when the props passed an authenticatedUser, it is the source of
\* the charge even if the current context holds another identity; the
\* identity of the context is the source only when the props passed none.
C33_PropsIdentityFirst ==
  \A r \in Req :
    tool[r].chargeCalls > 0 =>
      /\ props[r].user # None => tool[r].charge.source = props[r].user
      /\ props[r].user = None =>
           /\ tool[r].ctxUser \in Subjects
           /\ tool[r].charge.source = tool[r].ctxUser

C33_Witness ==
  \E r \in Req :
    /\ tool[r].chargeCalls > 0
    /\ props[r].user = "user-42"
    /\ tool[r].ctxUser = "user-7"
    /\ tool[r].charge.source = "user-42"

\* C37: a request that passed or skipped the gate is handed to the agent
\* only when its path is exactly /sse, /sse/message, /mcp or /; with any
\* other path it is answered 404 and does not reach the agent.
C37_RoutingIsExact ==
  \A r \in Req :
    /\ Forwarded(r) => req[r].path \in {"/sse", "/sse/message", "/mcp", "/"}
    /\ ( /\ req[r] # Null
         /\ pc[r] = "done"
         /\ req[r].path # WellKnownPath
         /\ (calls[r] = 0 \/ VerdictPassed(r)) ) =>
           /\ req[r].path \notin {"/sse", "/sse/message", "/mcp", "/"}
           /\ StatusOf(r) = 404
           /\ resp[r] = NotFoundResponse

C37_Witness ==
  \E r \in Req :
    /\ req[r] # Null
    /\ req[r].path = "/mcp/message/"
    /\ req[r].mountPath = "/mcp"
    /\ VerdictPassed(r)
    /\ pc[r] = "done"
    /\ StatusOf(r) = 404

\* C34: requirePayment works with the config of the current context when
\* there is a context, otherwise with the config of ATXPMcpApi; when
\* there is neither it fails with 'No ATXP config found', whether or not
\* a user could be resolved, and neither charge nor createPaymentRequest
\* is called.
C34_ConfigFromContextThenApi ==
  \A r \in Req :
    tool[r].pc \notin {"none", "import"} =>
      LET hadContext == tool[r].ctxOwner # None
          UsedConfig(config) ==
            /\ tool[r].error # ErrNoConfig
            /\ tool[r].chargeCalls > 0 =>
                 /\ tool[r].charge.destination = config.destination
                 /\ tool[r].charge.network = config.network
                 /\ tool[r].charge.payeeName = config.payeeName
      IN  /\ hadContext => UsedConfig(Config)
          /\ (~hadContext /\ atxpMcpApi.config # Null) =>
               UsedConfig(atxpMcpApi.config)
          /\ (~hadContext /\ atxpMcpApi.config = Null) =>
               /\ tool[r].pc = "failed"
               /\ tool[r].error = ErrNoConfig
               /\ tool[r].chargeCalls = 0
               /\ tool[r].createCalls = 0
               /\ tool[r].log = <<>>

C34_Witness ==
  \E r \in Req :
    /\ tool[r].ctxOwner = None
    /\ atxpMcpApi.config # Null
    /\ atxpMcpApi.config.destination = "0xOTHER"
    /\ tool[r].chargeCalls = 1
    /\ tool[r].charge.destination = "0xOTHER"
    /\ tool[r].charge.payeeName = "MCP Server"

\* C35: after any sequence of calls on ATXPMcpApi, isInitialized holds
\* exactly when the last call that changed the static fields was a
\* successful init; getMiddleware and getConfig throw exactly when it does
\* not hold and return the stored object otherwise; an init rejected for
\* a missing fundingDestination or fundingNetwork changes neither field;
\* and middleware and config are both null or both set.
C35_ApiLifecycle ==
  [][ /\ IsInitialized(atxpMcpApi') <=> apiCall'.lastChange = "init"
      /\ (atxpMcpApi'.middleware = Null) <=> (atxpMcpApi'.config = Null)
      /\ apiCall'.op = "isInitialized" =>
           apiCall'.flag = IsInitialized(atxpMcpApi')
      /\ apiCall'.op = "getMiddleware" =>
           /\ (apiCall'.error # None) <=> ~IsInitialized(atxpMcpApi')
           /\ apiCall'.error = None => apiCall'.value = atxpMcpApi'.middleware
      /\ apiCall'.op = "getConfig" =>
           /\ (apiCall'.error # None) <=> ~IsInitialized(atxpMcpApi')
           /\ apiCall'.error = None => apiCall'.value = atxpMcpApi'.config
      /\ apiCall'.op \in {"isInitialized", "getMiddleware", "getConfig"} =>
           atxpMcpApi' = atxpMcpApi
      /\ ( /\ apiCall'.op = "init"
           /\ apiCall'.error \in {ErrDestinationRequired, ErrNetworkRequired} )
           => atxpMcpApi' = atxpMcpApi
      /\ ( /\ apiCall'.op = "init"
           /\ apiCall'.error = None ) =>
             /\ IsInitialized(atxpMcpApi')
             /\ atxpMcpApi'.config = BuildWorkerATXPConfig(apiCall'.options)
      /\ apiCall'.op = "reset" => ~IsInitialized(atxpMcpApi') ]_vars

C35_Witness ==
  /\ apiCall.op = "init"
  /\ apiCall.error = ErrNetworkRequired
  /\ apiCall.lastChange = "init"
  /\ IsInitialized(atxpMcpApi)
  /\ atxpMcpApi.config.destination # apiCall.options.fundingDestination

\* C38: the worker wrappers call ATXPMcpApi.init only when ATXPMcpApi is
\* not initialised, and at most once: when a handler is created or serves
\* a request while ATXPMcpApi is initialised, the middleware and config of
\* the earlier initialisation stay as they are, whatever options the
\* handler was given.
C38_WrappersInitOnce ==
  [][ apiCall'.op \in {"atxpCloudflareWorker", "atxpCloudflareWorkerFromEnv"}
        => /\ apiCall'.inits <= 1
           /\ IsInitialized(atxpMcpApi) =>
                /\ apiCall'.inits = 0
                /\ apiCall'.error = None
                /\ atxpMcpApi' = atxpMcpApi
           /\ ~IsInitialized(atxpMcpApi) =>
                \/ apiCall'.inits = 1
                \/ apiCall'.error \in {ErrEnvDestination, ErrEnvNetwork} ]_vars

C38_Witness ==
  /\ apiCall.op = "atxpCloudflareWorker"
  /\ apiCall.error = None
  /\ apiCall.inits = 0
  /\ apiCall.options.fundingDestination = "0xOTHER"
  /\ IsInitialized(atxpMcpApi)
  /\ atxpMcpApi.config.destination = "0xDEST"

\* C36 (as claimed; refuted): a request that has left fetch was either
\* handed to the agent or answered with a response, and when an exception
\* was raised while fetch handled it, here by the initialisation of the
\* middleware, that response is a 500 with error server_error.
C36_ExceptionsBecome500 ==
  \A r \in Req :
    /\ pc[r] = "done" => resp[r] # Null
    /\ ( /\ pc[r] \in {"agent", "replied", "done"}
         /\ ~IsMetadataRequest(req[r].method, req[r].path)
         /\ atxpMiddleware = Null
         /\ InitATXPThrows(env) ) =>
           /\ pc[r] = "done"
           /\ StatusOf(r) = 500
           /\ ErrorOf(r) = "server_error"
           /\ resp[r].contentType = "application/json"

====
